---- MODULE Spec2Model ----
(***************************************************************************)
(* A model of fiftyone/core/clips.py: the run-length encoder _to_rle, the  *)
(* clips dataset factory make_clips_dataset with its builders, and the     *)
(* source synchronisation of ClipsView.                                    *)
(*                                                                         *)
(* The specifications share the module, one per part of the program:       *)
(*   SpecRle   _to_rle applied to bounded inputs                           *)
(*   SpecTraj  _get_trajectories applied to the frames of one sample       *)
(*   Spec      make_clips_dataset, from validation to the builder's end    *)
(*   SpecView  ClipsView.keep on a clips dataset                           *)
(*   SpecSync  ClipView.save, ClipsView.save, set_values and keep           *)
(*   SpecMaint ClipsView.keep_fields and reload                            *)
(* Each leaves the variables of the other parts at their idle values.      *)
(***************************************************************************)
EXTENDS Integers, Sequences, FiniteSets, TLC

VARIABLES
    \* ---- _to_rle(frame_numbers, bools, tol, min_len) and its result
    frame_numbers, bools, tol, min_len, rle,
    \* ---- _get_trajectories: the frames of one sample, and its result
    sample_frames, trajs,
    \* ---- make_clips_dataset: arguments, position, and what it has touched
    media_type, field_or_expr, trajectories, src_view, src_is_clips, pc,
    clips_type, error, dataset, src_tmp, called, pipeline, clip_values,
    \* ---- ClipsView: the clips dataset, the view on it, the source labels
    classification_field, clips_dataset, view_ids, view_doc, src_labels,
    set_labels_calls, delete_labels_calls, view_pc,
    \* ---- ClipsView: extra stages, the locals of the running operation (the
    \* ids set_values records, the ClipView being saved, the field_name of
    \* set_values, the fields being synced), what it has done so far, and the operations started
    has_stages, sv_ids, sample, field_name, sync_fields, events, op_count,
    \* ---- ClipsView.keep_fields and reload: the schemas of the source, the
    \* view and the clips store, the fields the source was told to delete, the
    \* stages of the view, the clips datasets that exist and the one the view
    \* refers to, and what the running operation has done
    cls_field, src_fields, view_field_schema, view_frame_schema, clips_fields,
    exclude_calls, clips_stage, view_stages, view_clips_dataset, datasets,
    reloads, maint_log, maint_pc

rleVars == <<frame_numbers, bools, tol, min_len, rle>>
trajVars == <<sample_frames, trajs>>
makeVars == <<media_type, field_or_expr, trajectories, src_view, src_is_clips,
              pc, clips_type, error, dataset, src_tmp, called, pipeline,
              clip_values>>
viewVars == <<classification_field, clips_dataset, view_ids, view_doc,
              src_labels, set_labels_calls, delete_labels_calls, view_pc,
              has_stages, sv_ids, sample, field_name, sync_fields, events,
              op_count>>
maintVars == <<cls_field, src_fields, view_field_schema, view_frame_schema,
               clips_fields, exclude_calls, clips_stage, view_stages,
               view_clips_dataset, datasets, reloads, maint_log, maint_pc>>
vars == <<rleVars, trajVars, makeVars, viewVars, maintVars>>

\* What an action of one part leaves alone: the other parts.
RleOnly == UNCHANGED <<trajVars, makeVars, viewVars, maintVars>>
TrajOnly == UNCHANGED <<rleVars, makeVars, viewVars, maintVars>>
MakeOnly == UNCHANGED <<rleVars, trajVars, viewVars, maintVars>>
ViewOnly == UNCHANGED <<rleVars, trajVars, makeVars, maintVars>>
MaintOnly == UNCHANGED <<rleVars, trajVars, makeVars, viewVars>>

(***************************************************************************)
(* Bounds of the model.                                                    *)
(***************************************************************************)
MaxFrame == 6
MaxTol == 2
MaxMinLen == 3
NumSamples == 2
NumClips == 3
MaxTrajFrames == 3
MaxOps == 1
MaxReloads == 2

(***************************************************************************)
(* Python values: None, or a list.                                         *)
(***************************************************************************)
None == [none |-> TRUE, list |-> <<>>]
List(l) == [none |-> FALSE, list |-> l]

(***************************************************************************)
(* _to_rle                                                                 *)
(***************************************************************************)
Min2(a, b) == IF a <= b THEN a ELSE b

\* int(b) of a Python bool
int(b) == IF b THEN 1 ELSE 0

\* The loop state before the first frame: ranges = [], start = last = None.
RleStart == [ranges |-> <<>>, started |-> FALSE, start |-> 0, last |-> 0]

\* The mutant of RleBody that keeps `start` and `last` when a run is flushed.
RleBodyNoReset(st, fn, b, t) ==
    LET flushed == IF st.started /\ fn - st.last > t + int(b)
                   THEN [st EXCEPT !.ranges = Append(@, <<st.start, st.last>>)]
                   ELSE st
    IN IF b
       THEN [flushed EXCEPT !.started = TRUE,
                            !.start = IF flushed.started THEN @ ELSE fn,
                            !.last = fn]
       ELSE flushed

\* The mutant of RleBody that moves `last` on every frame, true or false.
RleBodyLastEveryFrame(st, fn, b, t) ==
    LET flushed == IF st.started /\ fn - st.last > t + int(b)
                   THEN [RleStart EXCEPT
                            !.ranges = Append(st.ranges, <<st.start, st.last>>)]
                   ELSE st
    IN IF b
       THEN [flushed EXCEPT !.started = TRUE,
                            !.start = IF flushed.started THEN @ ELSE fn,
                            !.last = fn]
       ELSE IF flushed.started THEN [flushed EXCEPT !.last = fn] ELSE flushed

\* The mutant of RleBody that flushes at distance >= tol + int(b).
RleBodyOffByOne(st, fn, b, t) ==
    LET flushed == IF st.started /\ fn - st.last >= t + int(b)
                   THEN [RleStart EXCEPT
                            !.ranges = Append(st.ranges, <<st.start, st.last>>)]
                   ELSE st
    IN IF b
       THEN [flushed EXCEPT !.started = TRUE,
                            !.start = IF flushed.started THEN @ ELSE fn,
                            !.last = fn]
       ELSE flushed

\* One iteration of `for fn, b in zip(frame_numbers, bools)`.
RleBody(st, fn, b, t) ==
    LET flushed == IF st.started /\ fn - st.last > t + int(b)
                   THEN [RleStart EXCEPT
                            !.ranges = Append(st.ranges, <<st.start, st.last>>)]
                   ELSE st
    IN IF b
       THEN [flushed EXCEPT !.started = TRUE,
                            !.start = IF flushed.started THEN @ ELSE fn,
                            !.last = fn]
       ELSE flushed

\* The loop over zip(frame_numbers, bools), from index i on.
RECURSIVE RleLoop(_, _, _, _, _)
RleLoop(fns, bs, i, st, t) ==
    IF i > Min2(Len(fns), Len(bs))
    THEN st
    ELSE RleLoop(fns, bs, i + 1, RleBody(st, fns[i], bs[i], t), t)

\* The mutant of RleFinish that forgets the run still open after the loop.
RleFinishForgets(st) == st.ranges

\* `if start is not None: ranges.append((start, last))`
RleFinish(st) ==
    IF st.started THEN Append(st.ranges, <<st.start, st.last>>) ELSE st.ranges

\* The mutant of RleFilter that drops intervals of exactly min_len frames.
RleFilterStrict(ranges, ml) ==
    IF ml > 1
    THEN SelectSeq(ranges, LAMBDA r : r[2] - r[1] + 1 > ml)
    ELSE ranges

\* `if min_len > 1: return [(s, l) for s, l in ranges if l - s + 1 >= min_len]`
RleFilter(ranges, ml) ==
    IF ml > 1
    THEN SelectSeq(ranges, LAMBDA r : r[2] - r[1] + 1 >= ml)
    ELSE ranges

\* The mutant of RleEmpty that also answers None when no boolean is true.
RleEmptyOrAllFalse(fns, bs) ==
    fns = <<>> \/ \A i \in 1..Min2(Len(fns), Len(bs)) : ~bs[i]

\* `if not frame_numbers`
RleEmpty(fns, bs) == fns = <<>>

_to_rle(fns, bs, t, ml) ==
    IF RleEmpty(fns, bs)
    THEN None
    ELSE List(RleFilter(RleFinish(RleLoop(fns, bs, 1, RleStart, t)), ml))

\* The frame numbers of a sample, ascending: the members of S in order.
RECURSIVE SortedSeq(_)
SortedSeq(S) ==
    IF S = {}
    THEN <<>>
    ELSE LET m == CHOOSE x \in S : \A y \in S : x <= y
         IN <<m>> \o SortedSeq(S \ {m})

RleIdle ==
    /\ frame_numbers = <<>>
    /\ bools = <<>>
    /\ tol = 0
    /\ min_len = 0
    /\ rle = [called |-> FALSE, result |-> None]

\* The arguments of a call: strictly increasing frame numbers, one boolean
\* per frame, tol >= 0 and min_len >= 0.
RleInit ==
    /\ \E S \in SUBSET (1..MaxFrame) :
          /\ frame_numbers = SortedSeq(S)
          /\ bools \in [1..Cardinality(S) -> BOOLEAN]
    /\ tol \in 0..MaxTol
    /\ min_len \in 0..MaxMinLen
    /\ rle = [called |-> FALSE, result |-> None]

CallToRle ==
    /\ ~rle.called
    /\ rle' = [called |-> TRUE,
               result |-> _to_rle(frame_numbers, bools, tol, min_len)]
    /\ UNCHANGED <<frame_numbers, bools, tol, min_len>>
    /\ RleOnly

(***************************************************************************)
(* _get_trajectories                                                       *)
(*                                                                         *)
(* Strings are sequences of one-character strings, so that the concat of   *)
(* uuid_expr and the rsplit and int of the loop are computed, not assumed  *)
(* to invert each other.                                                   *)
(***************************************************************************)
DigitChars == <<"0", "1", "2", "3", "4", "5", "6", "7", "8", "9">>

\* F("index").to_string() of a non-negative integer
RECURSIVE to_string(_)
to_string(n) ==
    IF n < 10
    THEN <<DigitChars[n + 1]>>
    ELSE to_string(n \div 10) \o <<DigitChars[(n % 10) + 1]>>

\* int(index) of a string of digits
RECURSIVE ParseInt(_)
ParseInt(s) ==
    IF s = <<>>
    THEN 0
    ELSE 10 * ParseInt(SubSeq(s, 1, Len(s) - 1))
         + (CHOOSE d \in 0..9 : DigitChars[d + 1] = s[Len(s)])

\* An object of a frame's label list: its label, and its index if it has one.
Obs(label, indexed, index) ==
    [label |-> label, indexed |-> indexed, index |-> index]

\* F("label").concat(".", (F("index") != None).if_else(
\*     F("index").to_string(), ""))
Uuid(o) ==
    o.label \o <<".">> \o (IF o.indexed THEN to_string(o.index) ELSE <<>>)

\* uuid_expr on one frame: None where the frame has no label list.
FrameUuids(labels) ==
    IF labels.none
    THEN None
    ELSE List([i \in 1..Len(labels.list) |-> Uuid(labels.list[i])])

\* uuid.rsplit(".", 1): the parts before and after the last dot.
rsplit(u) ==
    LET p == CHOOSE i \in 1..Len(u) :
                 u[i] = "." /\ \A j \in (i + 1)..Len(u) : u[j] # "."
    IN <<SubSeq(u, 1, p - 1), SubSeq(u, p + 1, Len(u))>>

\* The position of a key in the observations, 0 if it is not there.
KeyPos(obs, key) ==
    IF \E k \in 1..Len(obs) : obs[k].key = key
    THEN CHOOSE k \in 1..Len(obs) : obs[k].key = key
    ELSE 0

Max2(a, b) == IF a >= b THEN a ELSE b

\* The mutant of BoundsAdd whose later values only ever move min.
BoundsAddMinOnly(obs, key, value) ==
    LET k == KeyPos(obs, key)
    IN IF k = 0
       THEN Append(obs, [key |-> key, min |-> value, max |-> value])
       ELSE [obs EXCEPT ![k].min = Min2(@, value)]

\* obs[(label, index)].add(fn): a new key gets a _Bounds at the end of the
\* dict, whose first value is both min and max.
BoundsAdd(obs, key, value) ==
    LET k == KeyPos(obs, key)
    IN IF k = 0
       THEN Append(obs, [key |-> key, min |-> value, max |-> value])
       ELSE [obs EXCEPT ![k].min = Min2(@, value), ![k].max = Max2(@, value)]

\* `for uuid in frame_uuids`, from position i on.
RECURSIVE TrajFrame(_, _, _, _)
TrajFrame(obs, fn, uuids, i) ==
    IF i > Len(uuids)
    THEN obs
    ELSE LET parts == rsplit(uuids[i])
             next == IF parts[2] # <<>>
                     THEN BoundsAdd(obs, <<parts[1], ParseInt(parts[2])>>, fn)
                     ELSE obs
         IN TrajFrame(next, fn, uuids, i + 1)

\* `for fn, frame_uuids in zip(sample_fns, sample_uuids)`, from frame i on.
RECURSIVE TrajFrames(_, _, _, _)
TrajFrames(obs, fns, uuids, i) ==
    IF i > Min2(Len(fns), Len(uuids))
    THEN obs
    ELSE LET next == IF uuids[i].none \/ uuids[i].list = <<>>
                     THEN obs
                     ELSE TrajFrame(obs, fns[i], uuids[i].list, 1)
         IN TrajFrames(next, fns, uuids, i + 1)

\* The mutant of TrajSkip that also skips a sample none of whose frames has
\* a label.
TrajSkipUnlabeled(sample_uuids) ==
    \A i \in 1..Len(sample_uuids) :
        sample_uuids[i].none \/ sample_uuids[i].list = <<>>

\* `if not sample_uuids`
TrajSkip(sample_uuids) == sample_uuids = <<>>

\* The entry of trajs for one sample, given its frames as records
\* [fn, labels]: what values([fn_expr, uuid_expr]) reads, then the loop body.
_get_trajectories(frames) ==
    LET sample_fns == [i \in 1..Len(frames) |-> frames[i].fn]
        sample_uuids == [i \in 1..Len(frames) |-> FrameUuids(frames[i].labels)]
    IN IF TrajSkip(sample_uuids)
       THEN None
       ELSE LET obs == TrajFrames(<<>>, sample_fns, sample_uuids, 1)
            IN List([k \in 1..Len(obs) |->
                        <<obs[k].key[1], obs[k].key[2], obs[k].min, obs[k].max>>])

\* The objects a frame's label list can hold: labels "c" and "c.1", with
\* index 0, 1 or none.
TrajObs ==
    {Obs(<<"c">>, TRUE, 0), Obs(<<"c">>, TRUE, 1),
     Obs(<<"c", ".", "1">>, TRUE, 1), Obs(<<"c", ".", "1">>, FALSE, 0)}

\* What a frame can carry in the field: None, or a list of up to two objects.
TrajFrameLabels ==
    {None, List(<<>>)}
    \cup {List(<<o>>) : o \in TrajObs}
    \cup {List(<<o1, o2>>) : o1 \in TrajObs, o2 \in TrajObs}

TrajIdle ==
    /\ sample_frames = <<>>
    /\ trajs = [called |-> FALSE, result |-> None]

\* The frames of a sample: ascending frame numbers, each with what the frame
\* carries in the field.
TrajInit ==
    /\ \E S \in SUBSET (1..MaxTrajFrames) :
          \E labels \in [1..Cardinality(S) -> TrajFrameLabels] :
              sample_frames = [i \in 1..Cardinality(S) |->
                                  [fn |-> SortedSeq(S)[i], labels |-> labels[i]]]
    /\ trajs = [called |-> FALSE, result |-> None]

CallGetTrajectories ==
    /\ ~trajs.called
    /\ trajs' = [called |-> TRUE, result |-> _get_trajectories(sample_frames)]
    /\ UNCHANGED sample_frames
    /\ TrajOnly

(***************************************************************************)
(* make_clips_dataset and its builders                                     *)
(***************************************************************************)
Samples == 1..NumSamples

\* What field_or_expr can be: a string naming a frame-level field of some
\* label type, a string naming a sample-level field of some type, a
\* ViewExpression, a dict, or a list of per-sample interval lists.
FrameLabelTypes ==
    {"Detections", "Polylines", "Keypoints", "Classifications", "Detection"}
SampleFieldTypes ==
    {"FrameSupportField", "ListField(FrameSupportField)",
     "TemporalDetection", "TemporalDetections", "Classification"}
FieldOrExprs ==
    [kind : {"str"}, frame : {TRUE}, name : {"f"}, ftype : FrameLabelTypes]
    \cup [kind : {"str"}, frame : {FALSE}, name : {"f"}, ftype : SampleFieldTypes]
    \cup [kind : {"ViewExpression", "dict", "list"}, frame : {FALSE},
          name : {""}, ftype : {""}]

\* fova.validate_video_collection: the collection's media type is video.
validate_video_collection(mt) == mt = "video"

\* sample_collection._is_frame_field(field_or_expr)
_is_frame_field(f) == f.frame

_is_frame_support_field(f) ==
    f.ftype \in {"FrameSupportField", "ListField(FrameSupportField)"}

\* The mutant of ClipsType that tests the trajectories flag before anything
\* else, so that an expression with trajectories=True becomes trajectories.
ClipsTypeFlagFirst(f, traj) ==
    IF traj /\ f.kind # "list"
    THEN "trajectories"
    ELSE IF f.kind = "str"
         THEN IF _is_frame_field(f)
              THEN "expression"
              ELSE IF _is_frame_support_field(f) THEN "support"
                   ELSE "detections"
         ELSE IF f.kind \in {"ViewExpression", "dict"} THEN "expression"
              ELSE "manual"

\* The classification of the request into clips_type.
ClipsType(f, traj) ==
    IF f.kind = "str"
    THEN IF _is_frame_field(f)
         THEN IF traj THEN "trajectories" ELSE "expression"
         ELSE IF _is_frame_support_field(f) THEN "support"
              ELSE "detections"
    ELSE IF f.kind \in {"ViewExpression", "dict"} THEN "expression"
         ELSE "manual"

\* The builder make_clips_dataset calls for a clips_type.
Builder(ct) ==
    CASE ct = "support" -> "_write_support_clips"
      [] ct = "detections" -> "_write_temporal_detection_clips"
      [] ct = "trajectories" -> "_write_trajectories"
      [] ct = "expression" -> "_write_expr_clips"
      [] OTHER -> "_write_manual_clips"

\* The sample fields make_clips_dataset declares on the new dataset.
DeclaredFields(ct, f) ==
    {"sample_id", "support"}
    \cup (IF ct \in {"detections", "trajectories"} THEN {f.name} ELSE {})

NoDataset ==
    [created |-> FALSE, media_type |-> "", fields |-> {}, indexes |-> {},
     written |-> FALSE, samples |-> <<>>]

\* A pipeline stage: its operator, and what it does to _rand: "fresh" when it
\* assigns {$rand: {}}, "copy" when it projects the _rand of the source
\* sample ("_rand": True), "none" otherwise.
Stage(op, rand) == [op |-> op, rand |-> rand]

\* The mutant of SupportPipeline whose list branch only unwinds.
SupportPipelineUnwindOnly(f) ==
    <<Stage("$project", "copy")>>
    \o (IF f.ftype = "ListField(FrameSupportField)"
        THEN <<Stage("$unwind", "none")>>
        ELSE <<>>)
    \o <<Stage("$out", "none")>>

SupportPipeline(f) ==
    <<Stage("$project", "copy")>>
    \o (IF f.ftype = "ListField(FrameSupportField)"
        THEN <<Stage("$unwind", "none"), Stage("$set", "fresh")>>
        ELSE <<>>)
    \o <<Stage("$out", "none")>>

TemporalDetectionPipeline(f) ==
    <<Stage("$project", "copy")>>
    \o (IF f.ftype = "TemporalDetections"
        THEN <<Stage("$unwind", "none"), Stage("$set", "none")>>
        ELSE <<>>)
    \o <<Stage("$set", "fresh"), Stage("$unset", "none"), Stage("$out", "none")>>

TrajectoriesPipeline ==
    <<Stage("$project", "none"), Stage("$unwind", "none"), Stage("$set", "fresh"),
      Stage("$unset", "none"), Stage("$out", "none")>>

ManualPipeline ==
    <<Stage("$project", "none"), Stage("$unwind", "none"), Stage("$set", "fresh"),
      Stage("$out", "none")>>

\* id_field = "_id" if not src_dataset._is_clips else "_sample_id"
IdField(is_clips) == IF is_clips THEN "_sample_id" ELSE "_id"

\* The sample a clip of a source clips dataset was taken from: clips 1 and 2
\* of the same sample, clips 3 and 4 of the next one, and so on; the ids of
\* those samples are not ids of the clips.
OriginalOf(s) == NumSamples + ((s + 1) \div 2)

\* The document of source sample s: its _id, and, in a clips dataset, the
\* _sample_id of the sample it was taken from (0: no such field).
SrcDoc(s, is_clips) ==
    [_id |-> s, _sample_id |-> IF is_clips THEN OriginalOf(s) ELSE 0]

\* What a caller passes for one sample under the manual strategy: None or a
\* list of (first, last) pairs, which nothing validates.
ManualClips ==
    {None, List(<<>>), List(<< <<1, 2>> >>), List(<< <<2, 2>>, <<3, 5>> >>),
     List(<< <<5, 2>> >>)}

\* The value of the field of one sample under the support and the
\* temporal-detection strategies, as the supports it holds: None or one
\* support for a single-valued field, None or a list for a list field.
FieldValues(f) ==
    IF f.ftype \in {"FrameSupportField", "TemporalDetection"}
    THEN {None, List(<< <<1, 3>> >>), List(<< <<2, 2>> >>)}
    ELSE {None, List(<<>>), List(<< <<1, 3>> >>), List(<< <<1, 3>>, <<2, 4>> >>)}

\* The frame numbers of one sample and the value of the expression on each.
ExprInputs ==
    {[fns |-> <<>>, bs |-> <<>>],
     [fns |-> <<1, 2, 3>>, bs |-> <<TRUE, FALSE, TRUE>>],
     [fns |-> <<1, 2, 4>>, bs |-> <<TRUE, TRUE, FALSE>>],
     [fns |-> <<2, 3>>, bs |-> <<FALSE, FALSE>>]}

\* The frames of one sample and the objects of the field on each.
TrajInputs ==
    {<<>>,
     <<[fn |-> 2, labels |-> None]>>,
     <<[fn |-> 1, labels |-> List(<<Obs(<<"c">>, TRUE, 1)>>)],
       [fn |-> 3, labels |-> List(<<Obs(<<"c">>, TRUE, 1),
                                    Obs(<<"c">>, FALSE, 0)>>)]>>,
     <<[fn |-> 2, labels |-> List(<<Obs(<<"c">>, TRUE, 0),
                                    Obs(<<"c">>, TRUE, 1)>>)]>>}

\* One value per sample of the collection; samples outside it have none.
ValuesFor(view, V) ==
    {v \in [Samples -> V \cup {None}] : \A s \in Samples \ view : v[s] = None}

HasStage(pl, op) == \E i \in 1..Len(pl) : pl[i].op = op

\* The rows a pipeline makes of one sample: with $unwind one per element of
\* the list (none for None or []), without it one row, whose value is null
\* (<<>>) when the field is None.
SampleRows(pl, value) ==
    IF HasStage(pl, "$unwind") THEN value.list
    ELSE IF value.none THEN << <<>> >> ELSE value.list

\* The support the pipeline's $set / $project gives a row: elements 2 and 3
\* (from 0) of a trajectory tuple, the row's value otherwise.
SupportOf(builder, row) ==
    IF builder = "_write_trajectories" THEN <<row[3], row[4]>> ELSE row

\* The _id of the k-th label that the field of sample s holds; the ids of
\* the labels of a dataset are pairwise distinct.
LabelId(s, k) == 10 * s + k

\* The _id the store gives a document that $out writes without one: no
\* label has it.
GeneratedId(s, k) == 0 - LabelId(s, k)

\* The TemporalDetection that the field of sample s holds at position k,
\* given its support.
SourceDetection(s, k, support) ==
    [_id |-> LabelId(s, k), _cls |-> "TemporalDetection",
     label |-> IF k = 1 THEN "a" ELSE "b", support |-> support]

\* The payload of a clip under the builders that write no label to it.
NoPayload == [_cls |-> ""]

\* "_id": "$" + field + "._id" of the temporal-detection builder: the _id of
\* the row's detection. Where the field is null the path is missing and the
\* document is written without an _id, as it is under the other builders,
\* whose $project drops it.
ClipId(builder, s, k, row) ==
    IF builder = "_write_temporal_detection_clips" /\ row # <<>>
    THEN SourceDetection(s, k, row)._id
    ELSE GeneratedId(s, k)

\* The field of a clip of the temporal-detection builder after
\* field + "._cls": "Classification" and the $unset of field + ".support";
\* a null field becomes a document that holds _cls only.
ClipLabel(builder, s, k, row) ==
    IF builder # "_write_temporal_detection_clips" THEN NoPayload
    ELSE IF row = <<>> THEN [_cls |-> "Classification"]
    ELSE LET d == SourceDetection(s, k, row)
         IN [_id |-> d._id, _cls |-> "Classification", label |-> d.label]

\* The documents $out writes: for each sample of the collection, in order,
\* its rows with _sample_id = "$" + id_field, their support, their _id and
\* their label.
RECURSIVE Materialize(_, _, _, _, _)
Materialize(pl, builder, order, values, is_clips) ==
    IF order = <<>>
    THEN <<>>
    ELSE LET s == Head(order)
             rows == SampleRows(pl, values[s])
         IN [k \in 1..Len(rows) |->
                [sample_id |-> SrcDoc(s, is_clips)[IdField(is_clips)],
                 support |-> SupportOf(builder, rows[k]),
                 _id |-> ClipId(builder, s, k, rows[k]),
                 label |-> ClipLabel(builder, s, k, rows[k])]]
            \o Materialize(pl, builder, Tail(order), values, is_clips)

\* The temporary field a builder writes to the source samples.
TmpField(builder, f) ==
    IF builder = "_write_trajectories" THEN "_" \o f.name ELSE "_support"

\* src_collection.set_values(_tmp_field, ...): every sample of the collection
\* gets the field.
SetTmp(tmp, view, field) ==
    [s \in Samples |-> IF s \in view THEN tmp[s] \cup {field} ELSE tmp[s]]

\* src_dataset._sample_collection.update_many({}, {"$unset": {_tmp_field: ""}})
UnsetTmp(tmp, field) == [s \in Samples |-> tmp[s] \ {field}]

Call(by, fn) == [by |-> by, fn |-> fn]

\* The builder that is running: the last one called.
Running == called[Len(called)].fn

MakeIdle ==
    /\ media_type = ""
    /\ field_or_expr = [kind |-> "", frame |-> FALSE, name |-> "", ftype |-> ""]
    /\ trajectories = FALSE
    /\ src_view = {}
    /\ src_is_clips = FALSE
    /\ pc = "idle"
    /\ clips_type = ""
    /\ error = ""
    /\ dataset = NoDataset
    /\ src_tmp = [s \in Samples |-> {}]
    /\ called = <<>>
    /\ pipeline = <<>>
    /\ clip_values = [s \in Samples |-> None]

\* A call make_clips_dataset(sample_collection, field_or_expr, trajectories=...)
\* on a source whose samples carry no temporary field.
MakeInit ==
    /\ media_type \in {"video", "image"}
    /\ field_or_expr \in FieldOrExprs
    /\ trajectories \in BOOLEAN
    /\ src_view \in SUBSET Samples
    /\ src_is_clips \in BOOLEAN
    /\ pc = "validate"
    /\ clips_type = ""
    /\ error = ""
    /\ dataset = NoDataset
    /\ src_tmp = [s \in Samples |-> {}]
    /\ called = <<>>
    /\ pipeline = <<>>
    /\ clip_values = [s \in Samples |-> None]

Raise(e) == pc' = "raised" /\ error' = e

makeArgs == <<media_type, field_or_expr, trajectories, src_view, src_is_clips>>

\* fova.validate_video_collection(sample_collection)
Validate ==
    /\ pc = "validate"
    /\ IF validate_video_collection(media_type)
       THEN pc' = "classify" /\ error' = error
       ELSE Raise("ValidationError")
    /\ UNCHANGED <<makeArgs, clips_type, dataset, src_tmp, called, pipeline,
                   clip_values>>
    /\ MakeOnly

\* The if/elif chain that sets clips_type.
Classify ==
    /\ pc = "classify"
    /\ clips_type' = ClipsType(field_or_expr, trajectories)
    /\ pc' = "create"
    /\ UNCHANGED <<makeArgs, error, dataset, src_tmp, called, pipeline,
                   clip_values>>
    /\ MakeOnly

\* fod.Dataset(_clips=True, ...), its media type, fields and index.
CreateDataset ==
    /\ pc = "create"
    /\ dataset' = [created |-> TRUE, media_type |-> "video",
                   fields |-> DeclaredFields(clips_type, field_or_expr),
                   indexes |-> {"sample_id"}, written |-> FALSE,
                   samples |-> <<>>]
    /\ pc' = "dispatch"
    /\ UNCHANGED <<makeArgs, clips_type, error, src_tmp, called, pipeline,
                   clip_values>>
    /\ MakeOnly

\* The if/elif chain that calls one builder.
Dispatch ==
    /\ pc = "dispatch"
    /\ called' = Append(called, Call("make_clips_dataset", Builder(clips_type)))
    /\ pc' = Builder(clips_type)
    /\ UNCHANGED <<makeArgs, clips_type, error, dataset, src_tmp, pipeline,
                   clip_values>>
    /\ MakeOnly

\* The pipeline reads the field of every sample of the collection.
_write_support_clips ==
    /\ pc = "_write_support_clips"
    /\ pipeline' = SupportPipeline(field_or_expr)
    /\ clip_values' \in ValuesFor(src_view, FieldValues(field_or_expr))
    /\ pc' = "aggregate"
    /\ UNCHANGED <<makeArgs, clips_type, error, dataset, src_tmp, called>>
    /\ MakeOnly

_write_temporal_detection_clips ==
    /\ pc = "_write_temporal_detection_clips"
    /\ IF field_or_expr.ftype \in {"TemporalDetection", "TemporalDetections"}
       THEN /\ pipeline' = TemporalDetectionPipeline(field_or_expr)
            /\ clip_values' \in ValuesFor(src_view, FieldValues(field_or_expr))
            /\ pc' = "aggregate"
            /\ error' = error
       ELSE Raise("ValueError") /\ UNCHANGED <<pipeline, clip_values>>
    /\ UNCHANGED <<makeArgs, clips_type, dataset, src_tmp, called>>
    /\ MakeOnly

_write_trajectories ==
    /\ pc = "_write_trajectories"
    /\ IF field_or_expr.ftype \in {"Detections", "Polylines", "Keypoints"}
       THEN /\ src_tmp' = SetTmp(src_tmp, src_view,
                                 TmpField("_write_trajectories", field_or_expr))
            /\ \E frames \in [src_view -> TrajInputs] :
                  clip_values' = [s \in Samples |->
                                     IF s \in src_view
                                     THEN _get_trajectories(frames[s])
                                     ELSE None]
            /\ pipeline' = TrajectoriesPipeline
            /\ pc' = "aggregate"
            /\ error' = error
       ELSE Raise("ValueError") /\ UNCHANGED <<src_tmp, pipeline, clip_values>>
    /\ UNCHANGED <<makeArgs, clips_type, dataset, called>>
    /\ MakeOnly

\* Evaluates the expression per frame, run-length encodes, and hands the
\* clips to _write_manual_clips.
_write_expr_clips ==
    /\ pc = "_write_expr_clips"
    /\ called' = Append(called, Call("_write_expr_clips", "_write_manual_clips"))
    /\ \E inputs \in [src_view -> ExprInputs], t \in 0..MaxTol,
          ml \in 0..MaxMinLen :
          clip_values' = [s \in Samples |->
                             IF s \in src_view
                             THEN _to_rle(inputs[s].fns, inputs[s].bs, t, ml)
                             ELSE None]
    /\ pc' = "_write_manual_clips"
    /\ UNCHANGED <<makeArgs, clips_type, error, dataset, src_tmp, pipeline>>
    /\ MakeOnly

_write_manual_clips ==
    /\ pc = "_write_manual_clips"
    /\ src_tmp' = SetTmp(src_tmp, src_view,
                         TmpField("_write_manual_clips", field_or_expr))
    /\ pipeline' = ManualPipeline
    /\ IF called[Len(called)].by = "make_clips_dataset"
       THEN clip_values' \in ValuesFor(src_view, ManualClips)
       ELSE clip_values' = clip_values
    /\ pc' = "aggregate"
    /\ UNCHANGED <<makeArgs, clips_type, error, dataset, called>>
    /\ MakeOnly

\* src_dataset._aggregate(pipeline=pipeline) returns: $out has written the
\* target. The temporary-field builders go on to their cleanup.
AggregateReturns ==
    /\ pc = "aggregate"
    /\ dataset' = [dataset EXCEPT
                       !.written = TRUE,
                       !.samples = Materialize(pipeline, Running,
                                               SortedSeq(src_view), clip_values,
                                               src_is_clips)]
    /\ pc' = IF Running \in {"_write_trajectories", "_write_manual_clips"}
             THEN "cleanup" ELSE "done"
    /\ UNCHANGED <<makeArgs, clips_type, error, src_tmp, called, pipeline,
                   clip_values>>
    /\ MakeOnly

\* src_dataset._aggregate(pipeline=pipeline) raises: the error leaves the
\* builder and make_clips_dataset, neither of which catches it.
AggregateRaises ==
    /\ pc = "aggregate"
    /\ Raise("OperationFailure")
    /\ UNCHANGED <<makeArgs, clips_type, dataset, src_tmp, called, pipeline,
                   clip_values>>
    /\ MakeOnly

\* update_many({}, {"$unset": {_tmp_field: ""}}), the builder's last statement
Cleanup ==
    /\ pc = "cleanup"
    /\ src_tmp' = UnsetTmp(src_tmp, TmpField(Running, field_or_expr))
    /\ pc' = "done"
    /\ UNCHANGED <<makeArgs, clips_type, error, dataset, called, pipeline,
                   clip_values>>
    /\ MakeOnly

(***************************************************************************)
(* ClipsView on a clips dataset, and the sync of its source                *)
(***************************************************************************)
Clips == 1..NumClips

\* _classification_field of a view whose strategy is not temporal-detection
NoField == ""

\* The members of a sequence.
Range(seq) == {seq[i] : i \in 1..Len(seq)}

\* The label of a Classification or TemporalDetection; NoLabel where the
\* field is None.
Labels == {"a", "b"}
NoLabel == "none"

\* The support a clip is generated with, and the one an edit gives it.
InitSupport(c) == <<c, c + 1>>
NewSupport(c) == <<c, c + 2>>

\* A document of the clips dataset.
Clip(sample_id, support, label) ==
    [sample_id |-> sample_id, support |-> support, label |-> label]

\* A TemporalDetection of the source: its label and support. Its id is the
\* id of the clip generated from it.
Detection(label, support) == [label |-> label, support |-> support]

\* The document a sync passes to _set_labels: the classification's dict with
\* "_cls" and "support" set, or None.
Doc(id, label, support) ==
    [present |-> TRUE, id |-> id, label |-> label, support |-> support,
     cls |-> "TemporalDetection"]
NoDoc ==
    [present |-> FALSE, id |-> 0, label |-> NoLabel, support |-> <<>>, cls |-> ""]

\* Whether the clips dataset holds a classification for clip c.
Stored == [c \in DOMAIN clips_dataset |-> clips_dataset[c].label # NoLabel]

\* No in-memory ClipView.
NoSample == [id |-> 0, sample_id |-> 0, label |-> NoLabel, support |-> <<>>]

\* ids of set_values: None, or the ids of the clips of the view.
NoIds == [none |-> TRUE, set |-> {}]
Ids(S) == [none |-> FALSE, set |-> S]

\* update_ids of _sync_source: the sample_id of each clip of sync_view whose
\* classification is present, in the order of the view.
SyncUpdateIds(sync, doc) ==
    LET ids == SelectSeq(SortedSeq(sync), LAMBDA c : doc[c])
    IN [i \in 1..Len(ids) |-> clips_dataset[ids[i]].sample_id]

\* The mutant of SyncDelIds that looks the clip's own id up among update_ids.
SyncDelIdsByLabelId(sync, doc, delete) ==
    {c \in sync : ~doc[c]}
    \cup (IF delete
          THEN LET observed_ids == Range(SyncUpdateIds(sync, doc))
               IN {c \in DOMAIN clips_dataset : c \notin observed_ids}
          ELSE {})

\* The mutant of SyncDelIds that collects ids under delete=True only.
SyncDelIdsDeleteOnly(sync, doc, delete) ==
    IF delete
    THEN LET observed_ids == Range(SyncUpdateIds(sync, doc))
         IN {c \in DOMAIN clips_dataset :
                clips_dataset[c].sample_id \notin observed_ids}
    ELSE {}

\* del_ids of _sync_source: the id of each clip of sync_view without a
\* classification and, with delete=True, of each clip of the clips dataset
\* whose sample_id is not among update_ids.
SyncDelIds(sync, doc, delete) ==
    {c \in sync : ~doc[c]}
    \cup (IF delete
          THEN LET observed_ids == Range(SyncUpdateIds(sync, doc))
               IN {c \in DOMAIN clips_dataset :
                      clips_dataset[c].sample_id \notin observed_ids}
          ELSE {})

\* The locals of the operations, when none is running.
NoOperation ==
    /\ sv_ids = NoIds
    /\ sample = NoSample
    /\ field_name = <<>>
    /\ sync_fields = None
    /\ events = <<>>
    /\ op_count = 0

ViewIdle ==
    /\ classification_field = NoField
    /\ clips_dataset = <<>>
    /\ view_ids = {}
    /\ view_doc = <<>>
    /\ src_labels = <<>>
    /\ set_labels_calls = <<>>
    /\ delete_labels_calls = <<>>
    /\ view_pc = "idle"
    /\ has_stages = FALSE
    /\ NoOperation

\* A clips dataset generated from the source (one clip per source label, the
\* clip's id being the label's), and a view on it: the clips its stages keep,
\* and for each whether the view yields a classification for it.
ViewInit ==
    /\ classification_field \in {"f", NoField}
    /\ \E sid \in [Clips -> Samples] :
          clips_dataset = [c \in Clips |-> Clip(sid[c], InitSupport(c), "a")]
    /\ view_ids \in SUBSET Clips
    /\ view_doc \in [view_ids -> BOOLEAN]
    /\ src_labels = [c \in Clips |-> Detection("a", InitSupport(c))]
    /\ set_labels_calls = <<>>
    /\ delete_labels_calls = <<>>
    /\ view_pc = "ready"
    /\ has_stages = (view_ids # Clips)
    /\ NoOperation

\* source_collection._delete_labels(del_ids, fields=[field])
DeleteLabels(labels, del_ids) ==
    [l \in DOMAIN labels \ del_ids |-> labels[l]]

\* keep(), first statement: self._sync_source(update=False, delete=True)
keep_sync_source ==
    /\ view_pc = "ready"
    /\ LET del_ids == SyncDelIds(view_ids, view_doc, TRUE)
       IN IF classification_field = NoField
          THEN /\ delete_labels_calls' = <<>>
               /\ src_labels' = src_labels
               /\ events' = <<>>
          ELSE /\ delete_labels_calls' =
                      IF del_ids # {} THEN <<del_ids>> ELSE <<>>
               /\ src_labels' = DeleteLabels(src_labels, del_ids)
               /\ events' = IF del_ids # {} THEN <<"_delete_labels">> ELSE <<>>
    /\ set_labels_calls' = <<>>
    /\ view_pc' = "keep"
    /\ UNCHANGED <<classification_field, clips_dataset, view_ids, view_doc,
                   has_stages, sv_ids, sample, field_name, sync_fields,
                   op_count>>
    /\ ViewOnly

\* keep(), second statement: super().keep() deletes from the clips dataset
\* every clip that is not in the view.
keep_super ==
    /\ view_pc = "keep"
    /\ clips_dataset' = [c \in DOMAIN clips_dataset \cap view_ids |->
                            clips_dataset[c]]
    /\ events' = Append(events, "write")
    /\ view_pc' = "ready"
    /\ UNCHANGED <<classification_field, view_ids, view_doc, src_labels,
                   set_labels_calls, delete_labels_calls, has_stages, sv_ids,
                   sample, field_name, sync_fields, op_count>>
    /\ ViewOnly

\* update_docs of _sync_source: for each clip of sync_view whose
\* classification is present, in the order of update_ids, its document with
\* doc["support"] = support and doc["_cls"] = "TemporalDetection".
SyncUpdateDocs(sync, doc) ==
    LET cs == SelectSeq(SortedSeq(sync), LAMBDA c : doc[c])
    IN [i \in 1..Len(cs) |->
           Doc(cs[i], clips_dataset[cs[i]].label, clips_dataset[cs[i]].support)]

\* source_collection._set_labels(field, sample_ids, docs): each document
\* replaces the TemporalDetection of the source that has its id; a None
\* document replaces nothing.
SetLabels(labels, docs) ==
    [l \in DOMAIN labels |->
        IF \E i \in 1..Len(docs) : docs[i].present /\ docs[i].id = l
        THEN LET i == CHOOSE j \in 1..Len(docs) :
                          /\ docs[j].present /\ docs[j].id = l
                          /\ \A k \in (j + 1)..Len(docs) :
                                ~(docs[k].present /\ docs[k].id = l)
             IN Detection(docs[i].label, docs[i].support)
        ELSE labels[l]]

\* A call of _set_labels as the source sees it.
SetLabelsCall(sample_ids, docs) == [sample_ids |-> sample_ids, docs |-> docs]

\* The mutant of SyncSkips that only looks at `fields`.
SyncSkipsFieldsOnly(fs) == ~fs.none /\ classification_field \notin Range(fs.list)

\* _sync_source returning early: no classification field, or the field is
\* not among `fields`.
SyncSkips(fs) ==
    \/ classification_field = NoField
    \/ (~fs.none /\ classification_field \notin Range(fs.list))

\* _sync_source past its early returns, for update=True and delete=False, on
\* the clips `sync` with classifications `doc`, after the events `before`.
SyncSource(sync, doc, before) ==
    LET update_ids == SyncUpdateIds(sync, doc)
        update_docs == SyncUpdateDocs(sync, doc)
        del_ids == SyncDelIds(sync, doc, FALSE)
    IN /\ set_labels_calls' = <<SetLabelsCall(update_ids, update_docs)>>
       /\ delete_labels_calls' = IF del_ids # {} THEN <<del_ids>> ELSE <<>>
       /\ src_labels' = DeleteLabels(SetLabels(src_labels, update_docs), del_ids)
       /\ events' = before \o <<"_set_labels">>
                    \o (IF del_ids # {} THEN <<"_delete_labels">> ELSE <<>>)

\* _sync_source returning early after the events `before`.
NoSync(before) ==
    /\ set_labels_calls' = <<>>
    /\ delete_labels_calls' = <<>>
    /\ src_labels' = src_labels
    /\ events' = before

\* The `fields` argument of ClipsView.save: None, the mirrored field, or
\* another field.
FieldsArgs == {None, List(<<"f">>), List(<<"g">>), List(<<"support">>)}

\* The field_name argument of set_values, as its components and the dots
\* between them: the mirrored field, a subfield of it, a subfield of another
\* field that has the mirrored field's name, and the support.
FieldNames ==
    {<<"f">>, <<"f", ".", "label">>, <<"g", ".", "f">>, <<"support">>}

\* The mutant of split that takes the part after the last dot.
split_last(name) == name[Len(name)]

\* field_name.split(".", 1)[0]: the part of the name before its first dot.
split(name) ==
    LET dots == {i \in 1..Len(name) : name[i] = "."}
        first == IF dots = {} THEN Len(name) + 1
                 ELSE CHOOSE i \in dots : \A j \in dots : i <= j
    IN IF first = 1 THEN "" ELSE name[first - 1]

\* Whether a write of `fs` writes the field that holds the classification.
WritesLabel(fs) == fs.none \/ "f" \in Range(fs.list)

\* ClipView.save(), first statement: super().save() writes the clip, whose
\* classification and support were edited in memory.
ClipView_save ==
    /\ view_pc = "ready"
    /\ op_count < MaxOps
    /\ \E c \in view_ids \cap DOMAIN clips_dataset, l \in Labels \cup {NoLabel} :
          \E s \in {clips_dataset[c].support, NewSupport(c)} :
             /\ sample' = [id |-> c, sample_id |-> clips_dataset[c].sample_id,
                           label |-> l, support |-> s]
             /\ clips_dataset' = [clips_dataset EXCEPT ![c].label = l,
                                                       ![c].support = s]
             /\ view_doc' = [view_doc EXCEPT ![c] = (l # NoLabel)]
    /\ set_labels_calls' = <<>>
    /\ delete_labels_calls' = <<>>
    /\ events' = <<"write">>
    /\ op_count' = op_count + 1
    /\ view_pc' = "_sync_source_sample"
    /\ UNCHANGED <<classification_field, view_ids, src_labels, has_stages,
                   sv_ids, field_name, sync_fields>>
    /\ ViewOnly

\* The mutant of _sync_source_sample that passes the classification's dict
\* as it is, with the support of the source's detection.
_sync_source_sample_label_only ==
    /\ view_pc = "_sync_source_sample"
    /\ IF classification_field = NoField
       THEN NoSync(events)
       ELSE LET doc == IF sample.label # NoLabel /\ sample.id \in DOMAIN src_labels
                       THEN Doc(sample.id, sample.label,
                                src_labels[sample.id].support)
                       ELSE NoDoc
            IN /\ set_labels_calls' =
                      <<SetLabelsCall(<<sample.sample_id>>, <<doc>>)>>
               /\ delete_labels_calls' = <<>>
               /\ src_labels' = SetLabels(src_labels, <<doc>>)
               /\ events' = Append(events, "_set_labels")
    /\ view_pc' = "ready"
    /\ UNCHANGED <<classification_field, clips_dataset, view_ids, view_doc,
                   has_stages, sv_ids, sample, field_name, sync_fields,
                   op_count>>
    /\ ViewOnly

\* ClipView.save(), second statement: self._view._sync_source_sample(self)
_sync_source_sample ==
    /\ view_pc = "_sync_source_sample"
    /\ IF classification_field = NoField
       THEN NoSync(events)
       ELSE LET doc == IF sample.label # NoLabel
                       THEN Doc(sample.id, sample.label, sample.support)
                       ELSE NoDoc
            IN /\ set_labels_calls' =
                      <<SetLabelsCall(<<sample.sample_id>>, <<doc>>)>>
               /\ delete_labels_calls' = <<>>
               /\ src_labels' = SetLabels(src_labels, <<doc>>)
               /\ events' = Append(events, "_set_labels")
    /\ view_pc' = "ready"
    /\ UNCHANGED <<classification_field, clips_dataset, view_ids, view_doc,
                   has_stages, sv_ids, sample, field_name, sync_fields,
                   op_count>>
    /\ ViewOnly

\* ClipsView.save(fields), first statement: self._sync_source(fields=fields)
ClipsView_save ==
    /\ view_pc = "ready"
    /\ op_count < MaxOps
    /\ \E fs \in FieldsArgs :
          /\ sync_fields' = fs
          /\ IF SyncSkips(fs) THEN NoSync(<<>>)
             ELSE SyncSource(view_ids, view_doc, <<>>)
    /\ op_count' = op_count + 1
    /\ view_pc' = "save"
    /\ UNCHANGED <<classification_field, clips_dataset, view_ids, view_doc,
                   has_stages, sv_ids, sample, field_name>>
    /\ ViewOnly

\* ClipsView.save(fields), second statement: super().save(fields=fields)
\* overwrites the clips of the view with their contents in the view, which
\* deletes the classifications the view filters out.
ClipsView_save_super ==
    /\ view_pc = "save"
    /\ clips_dataset' =
          [c \in DOMAIN clips_dataset |->
              IF c \in view_ids /\ WritesLabel(sync_fields) /\ ~view_doc[c]
              THEN [clips_dataset[c] EXCEPT !.label = NoLabel]
              ELSE clips_dataset[c]]
    /\ events' = Append(events, "write")
    /\ view_pc' = "ready"
    /\ UNCHANGED <<classification_field, view_ids, view_doc, src_labels,
                   set_labels_calls, delete_labels_calls, has_stages, sv_ids,
                   sample, field_name, sync_fields, op_count>>
    /\ ViewOnly

\* set_values(field_name, values), first statement: ids = self.values("id")
\* if the view has stages, None otherwise. The fields of the sync are
\* [field_name.split(".", 1)[0]]; field_name is gone when set_values returns.
set_values ==
    /\ view_pc = "ready"
    /\ op_count < MaxOps
    /\ field_name' \in FieldNames
    /\ sync_fields' = List(<<split(field_name')>>)
    /\ sv_ids' = IF has_stages THEN Ids(view_ids) ELSE NoIds
    /\ set_labels_calls' = <<>>
    /\ delete_labels_calls' = <<>>
    /\ events' = <<>>
    /\ op_count' = op_count + 1
    /\ view_pc' = "set_values"
    /\ UNCHANGED <<classification_field, clips_dataset, view_ids, view_doc,
                   src_labels, has_stages, sample>>
    /\ ViewOnly

\* The labels set_values writes to a clip: a classification or None for the
\* field itself, a label for its subfield, nothing for another field.
WrittenLabels ==
    IF ~WritesLabel(sync_fields) THEN {NoLabel}
    ELSE IF Len(field_name) = 1 THEN {NoLabel, "b"} ELSE {"b"}

\* The support set_values writes to clip c if the field is the support.
WrittenSupport(c) ==
    IF field_name = <<"support">> THEN NewSupport(c)
    ELSE clips_dataset[c].support

\* set_values, second statement: super().set_values(field_name, ...) writes
\* one value per clip of the view; the clips that match the stages of the
\* view afterwards may be others.
set_values_super ==
    /\ view_pc = "set_values"
    /\ \E values \in [view_ids -> WrittenLabels] :
          \E matching \in (IF has_stages THEN SUBSET DOMAIN clips_dataset
                                         ELSE {view_ids}) :
             /\ clips_dataset' =
                   [c \in DOMAIN clips_dataset |->
                       IF c \notin view_ids THEN clips_dataset[c]
                       ELSE IF WritesLabel(sync_fields)
                       THEN [clips_dataset[c] EXCEPT !.label =
                                IF Len(field_name) > 1
                                   /\ clips_dataset[c].label = NoLabel
                                THEN NoLabel ELSE values[c]]
                       ELSE [clips_dataset[c] EXCEPT
                                !.support = WrittenSupport(c)]]
             /\ view_ids' = matching
             /\ view_doc' =
                   [c \in matching |->
                       /\ clips_dataset'[c].label # NoLabel
                       /\ (c \in view_ids /\ ~WritesLabel(sync_fields))
                             => view_doc[c]]
    /\ events' = Append(events, "write")
    /\ view_pc' = "set_values_sync"
    /\ UNCHANGED <<classification_field, src_labels, set_labels_calls,
                   delete_labels_calls, has_stages, sv_ids, sample, field_name,
                   sync_fields, op_count>>
    /\ ViewOnly

\* The mutant of set_values_sync_source that syncs the view as it is after
\* the write.
set_values_sync_current_view ==
    /\ view_pc = "set_values_sync"
    /\ IF SyncSkips(sync_fields) THEN NoSync(events)
       ELSE SyncSource(view_ids, view_doc, events)
    /\ field_name' = <<>>
    /\ view_pc' = "ready"
    /\ UNCHANGED <<classification_field, clips_dataset, view_ids, view_doc,
                   has_stages, sv_ids, sample, sync_fields, op_count>>
    /\ ViewOnly

\* set_values, last statement: self._sync_source(fields=[field], ids=ids),
\* whose sync_view is self._clips_dataset.select(ids) unless ids is None.
set_values_sync_source ==
    /\ view_pc = "set_values_sync"
    /\ IF SyncSkips(sync_fields) THEN NoSync(events)
       ELSE IF sv_ids.none THEN SyncSource(view_ids, view_doc, events)
            ELSE SyncSource(sv_ids.set \cap DOMAIN clips_dataset, Stored, events)
    /\ field_name' = <<>>
    /\ view_pc' = "ready"
    /\ UNCHANGED <<classification_field, clips_dataset, view_ids, view_doc,
                   has_stages, sv_ids, sample, sync_fields, op_count>>
    /\ ViewOnly

\* The sample a clip of the generated clips dataset was taken from.
SampleOf(c) == Min2((c + 1) \div 2, NumSamples)

\* A clips dataset generated from the source, two clips per sample, and a
\* view on it with or without extra stages; without stages the view holds
\* every clip and its classification. The support of clip 1 has been set
\* through the view since (set_values of "support" syncs nothing).
SyncInit ==
    /\ classification_field \in {"f", NoField}
    /\ clips_dataset =
          [c \in Clips |->
              Clip(SampleOf(c),
                   IF c = 1 THEN NewSupport(c) ELSE InitSupport(c), "a")]
    /\ has_stages \in BOOLEAN
    /\ view_ids \in (IF has_stages THEN SUBSET Clips ELSE {Clips})
    /\ view_doc \in (IF has_stages THEN [view_ids -> BOOLEAN]
                                   ELSE {[c \in view_ids |-> TRUE]})
    /\ src_labels = [c \in Clips |-> Detection("a", InitSupport(c))]
    /\ set_labels_calls = <<>>
    /\ delete_labels_calls = <<>>
    /\ view_pc = "ready"
    /\ NoOperation

(***************************************************************************)
(* ClipsView.keep_fields and ClipsView.reload                              *)
(***************************************************************************)
\* sample_collection._FRAMES_PREFIX
_FRAMES_PREFIX == "frames."

\* A field path: the prefix ("" for a sample field) and the field's name.
Path(prefix, f) == <<prefix, f>>

SampleFieldNames == {"f", "g"}
FrameFieldNames == {"f", "h"}

\* get_frame_field_schema().keys() of a collection with the given fields
get_frame_field_schema(fields) ==
    {p[2] : p \in {q \in fields : q[1] = _FRAMES_PREFIX}}

\* collection.exclude_fields(paths).keep_fields(): the fields are deleted
\* from the collection's dataset.
ExcludeKeepFields(fields, paths) == fields \ paths

\* The clips stage of a view: ToClips on a temporal detection field, or on an
\* expression.
ClipsStages == {[field_or_expr |-> "f", temporal |-> TRUE],
                [field_or_expr |-> "expr", temporal |-> FALSE]}

\* ClipsView._get_temporal_detection_field(source_collection, clips_stage)
_get_temporal_detection_field(stage) ==
    IF stage.temporal THEN stage.field_or_expr ELSE NoField

\* The sample fields a clips dataset is generated with, besides the default
\* ones.
GeneratedFields(stage) ==
    IF stage.temporal THEN {stage.field_or_expr} ELSE {}

MaintIdle ==
    /\ cls_field = NoField
    /\ src_fields = {}
    /\ view_field_schema = {}
    /\ view_frame_schema = {}
    /\ clips_fields = {}
    /\ exclude_calls = <<>>
    /\ clips_stage = [field_or_expr |-> "", temporal |-> FALSE]
    /\ view_stages = <<>>
    /\ view_clips_dataset = 0
    /\ datasets = {}
    /\ reloads = 0
    /\ maint_log = <<>>
    /\ maint_pc = "idle"

\* A clips view on clips dataset 1: the source has its mirrored field (if
\* any) and some frame fields; the stages of the view select some of the
\* fields of the clips and of the frames.
MaintInit ==
    /\ clips_stage \in ClipsStages
    /\ cls_field = _get_temporal_detection_field(clips_stage)
    /\ \E frame_fields \in SUBSET FrameFieldNames :
          src_fields = {Path("", f) : f \in GeneratedFields(clips_stage) \cup {"g"}}
                       \cup {Path(_FRAMES_PREFIX, f) : f \in frame_fields}
    /\ clips_fields = GeneratedFields(clips_stage) \cup {"g"}
    /\ view_field_schema \in SUBSET clips_fields
    /\ view_frame_schema \in SUBSET FrameFieldNames
    /\ view_stages = IF view_field_schema = clips_fields
                        /\ view_frame_schema = FrameFieldNames
                     THEN <<>> ELSE <<"exclude_fields">>
    /\ exclude_calls = <<>>
    /\ view_clips_dataset = 1
    /\ datasets = {1}
    /\ reloads = 0
    /\ maint_log = <<>>
    /\ maint_pc = "ready"

\* The fields and calls _sync_source_keep_fields leaves behind, given the
\* prefix it puts before the names of the frame fields.
KeepFieldsSync(prefix) ==
    LET del_cls == cls_field # NoField /\ cls_field \notin view_field_schema
        cls_paths == {Path("", cls_field)}
        fields1 == IF del_cls THEN ExcludeKeepFields(src_fields, cls_paths)
                   ELSE src_fields
        schema == view_frame_schema
        src_schema == get_frame_field_schema(fields1)
        del_fields == src_schema \ schema
        _del_fields == {Path(prefix, f) : f \in del_fields}
    IN [fields |-> IF del_fields # {}
                   THEN ExcludeKeepFields(fields1, _del_fields) ELSE fields1,
        calls |-> (IF del_cls THEN <<cls_paths>> ELSE <<>>)
                  \o (IF del_fields # {} THEN <<_del_fields>> ELSE <<>>)]

\* The mutant of _sync_source_keep_fields that passes the names of the frame
\* fields without the frames prefix.
_sync_source_keep_fields_no_prefix ==
    /\ maint_pc = "ready"
    /\ src_fields' = KeepFieldsSync("").fields
    /\ exclude_calls' = KeepFieldsSync("").calls
    /\ maint_log' = [i \in 1..Len(KeepFieldsSync("").calls) |-> "exclude_fields"]
    /\ maint_pc' = "keep_fields"
    /\ UNCHANGED <<cls_field, view_field_schema, view_frame_schema,
                   clips_fields, clips_stage, view_stages, view_clips_dataset,
                   datasets, reloads>>
    /\ MaintOnly

\* keep_fields(), first statement: self._sync_source_keep_fields()
_sync_source_keep_fields ==
    /\ maint_pc = "ready"
    /\ src_fields' = KeepFieldsSync(_FRAMES_PREFIX).fields
    /\ exclude_calls' = KeepFieldsSync(_FRAMES_PREFIX).calls
    /\ maint_log' = [i \in 1..Len(KeepFieldsSync(_FRAMES_PREFIX).calls) |->
                        "exclude_fields"]
    /\ maint_pc' = "keep_fields"
    /\ UNCHANGED <<cls_field, view_field_schema, view_frame_schema,
                   clips_fields, clips_stage, view_stages, view_clips_dataset,
                   datasets, reloads>>
    /\ MaintOnly

\* keep_fields(), second statement: super().keep_fields() deletes from the
\* clips dataset the fields that the view excludes.
keep_fields_super ==
    /\ maint_pc = "keep_fields"
    /\ clips_fields' = clips_fields \cap view_field_schema
    /\ maint_log' = Append(maint_log, "write")
    /\ maint_pc' = "ready"
    /\ UNCHANGED <<cls_field, src_fields, view_field_schema, view_frame_schema,
                   exclude_calls, clips_stage, view_stages, view_clips_dataset,
                   datasets, reloads>>
    /\ MaintOnly

\* reload(), first statement: self._source_collection.reload()
reload ==
    /\ maint_pc = "ready"
    /\ reloads < MaxReloads
    /\ reloads' = reloads + 1
    /\ maint_log' = <<"source.reload">>
    /\ maint_pc' = "reload_delete"
    /\ UNCHANGED <<cls_field, src_fields, view_field_schema, view_frame_schema,
                   clips_fields, exclude_calls, clips_stage, view_stages,
                   view_clips_dataset, datasets>>
    /\ MaintOnly

\* reload(), second statement: self._clips_dataset.delete()
reload_delete ==
    /\ maint_pc = "reload_delete"
    /\ datasets' = datasets \ {view_clips_dataset}
    /\ maint_log' = Append(maint_log, "clips_dataset.delete")
    /\ maint_pc' = "reload_load_view"
    /\ UNCHANGED <<cls_field, src_fields, view_field_schema, view_frame_schema,
                   clips_fields, exclude_calls, clips_stage, view_stages,
                   view_clips_dataset, reloads>>
    /\ MaintOnly

\* clips_stage.load_view(source_collection) when the clips dataset has been
\* deleted, after n reloads of the source: a new clips dataset is generated,
\* whose id no dataset has had.
load_view(n) == n + 1

\* The mutant of reload_load_view that generates the dataset and keeps
\* self._clips_dataset.
reload_load_view_keeps_dataset ==
    /\ maint_pc = "reload_load_view"
    /\ datasets' = datasets \cup {load_view(reloads)}
    /\ clips_fields' = GeneratedFields(clips_stage) \cup {"g"}
    /\ maint_log' = Append(maint_log, "load_view")
    /\ maint_pc' = "ready"
    /\ UNCHANGED <<cls_field, src_fields, view_field_schema, view_frame_schema,
                   exclude_calls, clips_stage, view_stages, view_clips_dataset,
                   reloads>>
    /\ MaintOnly

\* reload(), last statements: _view = self._clips_stage.load_view(...) and
\* self._clips_dataset = _view._clips_dataset
reload_load_view ==
    /\ maint_pc = "reload_load_view"
    /\ datasets' = datasets \cup {load_view(reloads)}
    /\ view_clips_dataset' = load_view(reloads)
    /\ clips_fields' = GeneratedFields(clips_stage) \cup {"g"}
    /\ maint_log' = Append(maint_log, "load_view")
    /\ maint_pc' = "ready"
    /\ UNCHANGED <<cls_field, src_fields, view_field_schema, view_frame_schema,
                   exclude_calls, clips_stage, view_stages, reloads>>
    /\ MaintOnly

(***************************************************************************)
(* The specifications                                                      *)
(***************************************************************************)
InitRle == RleInit /\ TrajIdle /\ MakeIdle /\ ViewIdle /\ MaintIdle

NextRle == CallToRle

SpecRle == InitRle /\ [][NextRle]_vars

InitTraj == RleIdle /\ TrajInit /\ MakeIdle /\ ViewIdle /\ MaintIdle

NextTraj == CallGetTrajectories

SpecTraj == InitTraj /\ [][NextTraj]_vars

Init == RleIdle /\ TrajIdle /\ MakeInit /\ ViewIdle /\ MaintIdle

Next ==
    \/ Validate
    \/ Classify
    \/ CreateDataset
    \/ Dispatch
    \/ _write_support_clips
    \/ _write_temporal_detection_clips
    \/ _write_trajectories
    \/ _write_expr_clips
    \/ _write_manual_clips
    \/ AggregateReturns
    \/ AggregateRaises
    \/ Cleanup

Spec == Init /\ [][Next]_vars

InitView == RleIdle /\ TrajIdle /\ MakeIdle /\ ViewInit /\ MaintIdle

NextView ==
    \/ keep_sync_source
    \/ keep_super

InitSync == RleIdle /\ TrajIdle /\ MakeIdle /\ SyncInit /\ MaintIdle
NextSync ==
    \/ ClipView_save
    \/ _sync_source_sample
    \/ ClipsView_save
    \/ ClipsView_save_super
    \/ set_values
    \/ set_values_super
    \/ set_values_sync_source
    \/ keep_sync_source
    \/ keep_super
SpecSync == InitSync /\ [][NextSync]_vars

SpecView == InitView /\ [][NextView]_vars

InitMaint == RleIdle /\ TrajIdle /\ MakeIdle /\ ViewIdle /\ MaintInit
NextMaint ==
    \/ _sync_source_keep_fields
    \/ keep_fields_super
    \/ reload
    \/ reload_delete
    \/ reload_load_view
SpecMaint == InitMaint /\ [][NextMaint]_vars

(***************************************************************************)
(* Claims                                                                  *)
(***************************************************************************)

\* A builder that writes a temporary field to the source samples has run.
TmpBuilderRan ==
    /\ called # <<>>
    /\ Running \in {"_write_trajectories", "_write_manual_clips"}

\* C1: when a builder of the manual, expression or trajectories strategy has
\* ended, by returning or by the pipeline's error, no source sample carries
\* the temporary field any more.
C1_TmpFieldRemovedAtEnd ==
    (pc \in {"done", "raised"} /\ TmpBuilderRan)
        => \A s \in Samples : src_tmp[s] = {}

\* C2: once keep() has synced the source of a temporal-detection view, the id
\* of every clip of the clips dataset that is not in the view is in the id
\* set passed to the source's _delete_labels.
C2_KeepDeletesExcluded ==
    (view_pc = "keep" /\ classification_field # NoField)
        => \A c \in DOMAIN clips_dataset \ view_ids :
              \E i \in 1..Len(delete_labels_calls) : c \in delete_labels_calls[i]

\* C3: the list _to_rle returns is sorted ascending, its intervals are
\* pairwise disjoint, and each has start <= end.
C3_RleSortedDisjoint ==
    (rle.called /\ ~rle.result.none)
        => LET R == rle.result.list
           IN /\ \A k \in 1..Len(R) : R[k][1] <= R[k][2]
              /\ \A k \in 1..Len(R), l \in 1..Len(R) :
                    k < l => R[k][2] < R[l][1]

C3_Witness ==
    /\ rle.called
    /\ Len(rle.result.list) >= 2
    /\ tol >= 1
    /\ \E k \in 1..Len(rle.result.list) :
          rle.result.list[k][1] < rle.result.list[k][2]

\* The example of C4: frames 1..6 with booleans T,T,F,F,T,T and min_len = 0.
C4_Example ==
    /\ rle.called
    /\ frame_numbers = <<1, 2, 3, 4, 5, 6>>
    /\ bools = <<TRUE, TRUE, FALSE, FALSE, TRUE, TRUE>>
    /\ min_len = 0

\* C4, as stated: on the example with tol = 1, _to_rle returns [(1, 6)].
C4_Tol1Bridges ==
    (C4_Example /\ tol = 1) => rle.result = List(<< <<1, 6>> >>)

\* C4, amended: on the example with tol = 1, _to_rle returns [(1, 2), (5, 6)]
\* (two false frames are more than tol = 1 can overlook); with tol = 2 it
\* returns [(1, 6)].
C4_Tol1Splits ==
    /\ (C4_Example /\ tol = 1) => rle.result = List(<< <<1, 2>>, <<5, 6>> >>)
    /\ (C4_Example /\ tol = 2) => rle.result = List(<< <<1, 6>> >>)

C4_Witness == C4_Example /\ tol = 1 /\ Len(rle.result.list) = 2

\* Each frame number is the one before plus 1.
Consecutive(fns) == \A i \in 2..Len(fns) : fns[i] = fns[i - 1] + 1

\* Frames i < j are true and every frame between them is false.
SuccessiveTrue(i, j) ==
    /\ i < j
    /\ bools[i] /\ bools[j]
    /\ \A m \in (i + 1)..(j - 1) : ~bools[m]

\* The frames of indices i and j lie in one interval of R.
SameInterval(R, i, j) ==
    \E k \in 1..Len(R) :
        R[k][1] <= frame_numbers[i] /\ frame_numbers[j] <= R[k][2]

\* The maximal runs of true frames, as (first, last) frame numbers.
MaximalTrueRuns ==
    LET n == Len(frame_numbers)
    IN {<<frame_numbers[p[1]], frame_numbers[p[2]]>> :
           p \in {q \in (1..n) \X (1..n) :
                     /\ q[1] <= q[2]
                     /\ \A m \in q[1]..q[2] : bools[m]
                     /\ (q[1] > 1 => ~bools[q[1] - 1])
                     /\ (q[2] < n => ~bools[q[2] + 1])}}

\* C5: for consecutive frame numbers and min_len = 0, two successive true
\* frames with k false frames between them are in the same returned interval
\* exactly when k <= tol; every true frame is in an interval; and with
\* tol = 0 the intervals are exactly the maximal runs of true frames.
C5_TolIsMaxFalseFrames ==
    (rle.called /\ min_len = 0 /\ frame_numbers # <<>>
     /\ Consecutive(frame_numbers))
        => LET R == rle.result.list
               n == Len(frame_numbers)
           IN /\ \A i \in 1..n, j \in 1..n :
                    SuccessiveTrue(i, j)
                        => (SameInterval(R, i, j) <=> j - i - 1 <= tol)
              /\ \A i \in 1..n : bools[i] => SameInterval(R, i, i)
              /\ tol = 0 => /\ Range(R) = MaximalTrueRuns
                            /\ Len(R) = Cardinality(MaximalTrueRuns)
              /\ (tol = 0 /\ frame_numbers = <<1, 2, 3, 4, 5, 6>>
                  /\ bools = <<TRUE, TRUE, FALSE, FALSE, TRUE, TRUE>>)
                    => R = << <<1, 2>>, <<5, 6>> >>

\* A call with tol = 1 where one false frame was bridged and two were not.
C5_Witness ==
    /\ rle.called /\ min_len = 0 /\ tol = 1
    /\ Consecutive(frame_numbers)
    /\ \E i \in 1..Len(frame_numbers), j \in 1..Len(frame_numbers) :
          SuccessiveTrue(i, j) /\ j - i - 1 = 1
          /\ SameInterval(rle.result.list, i, j)
    /\ \E i \in 1..Len(frame_numbers), j \in 1..Len(frame_numbers) :
          SuccessiveTrue(i, j) /\ j - i - 1 = 2
          /\ ~SameInterval(rle.result.list, i, j)

\* The number of frames an interval spans.
IntervalLen(r) == r[2] - r[1] + 1

\* The intervals _to_rle returns for the same frames and tol with min_len = 0.
RangesMinLen0 == _to_rle(frame_numbers, bools, tol, 0).list

\* C6: with min_len > 1 the result is the result for min_len = 0 without its
\* intervals of fewer than min_len frames, in the same order, so no interval
\* returned is shorter than min_len; with min_len 0 or 1 nothing is removed.
C6_MinLenFilters ==
    rle.called
        => /\ rle.result.none = _to_rle(frame_numbers, bools, tol, 0).none
           /\ min_len > 1 =>
                rle.result.list =
                    SelectSeq(RangesMinLen0,
                              LAMBDA r : ~(IntervalLen(r) < min_len))
           /\ min_len <= 1 => rle.result.list = RangesMinLen0
           /\ \A k \in 1..Len(rle.result.list) :
                 IntervalLen(rle.result.list[k]) >= min_len

\* A call with min_len = 3 that removed an interval of 2 frames and kept one
\* of exactly 3.
C6_Witness ==
    /\ rle.called /\ min_len = 3
    /\ \E k \in 1..Len(RangesMinLen0) : IntervalLen(RangesMinLen0[k]) = 2
    /\ \E k \in 1..Len(rle.result.list) :
          IntervalLen(rle.result.list[k]) = 3

\* C7: _to_rle returns None exactly when the frame numbers are empty, and
\* the empty list when they are not but every boolean is false.
C7_NoneIffEmpty ==
    rle.called
        => /\ rle.result.none <=> frame_numbers = <<>>
           /\ (frame_numbers # <<>>
               /\ \A i \in 1..Len(bools) : ~bools[i])
                 => rle.result = List(<<>>)

\* A call on frames that are all false, with a tolerance and a minimum length.
C7_Witness ==
    /\ rle.called
    /\ Len(frame_numbers) >= 2
    /\ \A i \in 1..Len(bools) : ~bools[i]
    /\ tol > 0 /\ min_len > 1
    /\ rle.result = List(<<>>)

\* Every frame number the intervals cover, in order.
RECURSIVE Flatten(_)
Flatten(R) ==
    IF R = <<>>
    THEN <<>>
    ELSE [i \in 1..IntervalLen(R[1]) |-> R[1][1] + i - 1] \o Flatten(Tail(R))

\* _to_rle with tol = 0 on the frames the result covers, all marked true.
RleOfFlattened ==
    LET fns == Flatten(rle.result.list)
    IN _to_rle(fns, [i \in 1..Len(fns) |-> TRUE], 0, 0)

\* C8, as stated: for every input, re-encoding the frames covered by the
\* result of _to_rle(frames, bools, tol=0) gives that result again.
C8_IdempotentTol0 ==
    (rle.called /\ tol = 0 /\ min_len = 0) => RleOfFlattened = rle.result

\* C8, amended: the same, for every input whose result is a non-empty list
\* (some boolean is true).
C8_IdempotentTol0NonEmpty ==
    (rle.called /\ tol = 0 /\ min_len = 0 /\ rle.result.list # <<>>)
        => RleOfFlattened = rle.result

\* A call with tol = 0 on frames with a gap in the numbers and a false frame
\* that returns several intervals, one of several frames.
C8_Witness ==
    /\ rle.called /\ tol = 0 /\ min_len = 0
    /\ Len(rle.result.list) >= 2
    /\ ~Consecutive(frame_numbers)
    /\ \E i \in 1..Len(bools) : ~bools[i]
    /\ \E k \in 1..Len(rle.result.list) : IntervalLen(rle.result.list[k]) >= 2

\* C9: when make_clips_dataset has failed with a validation error, no clips
\* dataset was created, it has no field or index added, and no source sample
\* was changed.
C9_ValidationBeforeMutation ==
    (pc = "raised" /\ error \in {"ValidationError", "ValueError"})
        => /\ ~dataset.created
           /\ dataset.fields = {}
           /\ dataset.indexes = {}
           /\ \A s \in Samples : src_tmp[s] = {}

\* The strategy the claim gives for a request; "" where it gives none.
C10_Strategy(f, traj) ==
    CASE f.kind = "str" /\ f.frame /\ traj -> "trajectories"
      [] f.kind = "str" /\ f.frame /\ ~traj -> "expression"
      [] f.kind = "str" /\ ~f.frame
         /\ f.ftype \in {"FrameSupportField", "ListField(FrameSupportField)"}
           -> "support"
      [] f.kind = "str" /\ ~f.frame
         /\ f.ftype \in {"TemporalDetection", "TemporalDetections"}
           -> "detections"
      [] f.kind \in {"ViewExpression", "dict"} -> "expression"
      [] f.kind = "list" -> "manual"
      [] OTHER -> ""

\* The builder of each strategy.
C10_BuilderOf ==
    [support |-> "_write_support_clips",
     detections |-> "_write_temporal_detection_clips",
     trajectories |-> "_write_trajectories",
     expression |-> "_write_expr_clips",
     manual |-> "_write_manual_clips"]

\* The builders make_clips_dataset itself has called.
C10_Dispatched ==
    SelectSeq(called, LAMBDA c : c.by = "make_clips_dataset")

\* C10: every request on a video collection is classified into exactly one of
\* the five strategies, the one the claim's rules give, and make_clips_dataset
\* calls the builder of that strategy and no other.
C10_OneStrategyOneBuilder ==
    /\ Len(C10_Dispatched) <= 1
    /\ (pc \notin {"validate", "classify"} /\ error # "ValidationError")
          => /\ clips_type \in DOMAIN C10_BuilderOf
             /\ C10_Strategy(field_or_expr, trajectories) \in {"", clips_type}
    /\ (pc \notin {"validate", "classify", "create", "dispatch"}
        /\ error # "ValidationError")
          => /\ Len(C10_Dispatched) = 1
             /\ C10_Dispatched[1].fn = C10_BuilderOf[clips_type]

\* An expression with trajectories=True went through the expression builder.
C10_Witness ==
    /\ pc = "done"
    /\ field_or_expr.kind = "ViewExpression"
    /\ trajectories
    /\ C10_Dispatched = <<Call("make_clips_dataset", "_write_expr_clips")>>

\* The places of the sample where an object with an index is observed: the
\* position of the frame, and the position in the frame's list.
TrajPlaces ==
    {p \in (1..Len(sample_frames)) \X (1..2) :
        /\ ~sample_frames[p[1]].labels.none
        /\ p[2] <= Len(sample_frames[p[1]].labels.list)
        /\ sample_frames[p[1]].labels.list[p[2]].indexed}

\* The (label, index) pair observed at a place.
TrajPairAt(p) ==
    LET o == sample_frames[p[1]].labels.list[p[2]] IN <<o.label, o.index>>

\* The frame numbers at which a pair is observed.
TrajFramesOf(pair) ==
    {sample_frames[p[1]].fn : p \in {q \in TrajPlaces : TrajPairAt(q) = pair}}

\* Place p comes before place q in the order of the frames and lists.
TrajBefore(p, q) == p[1] < q[1] \/ (p[1] = q[1] /\ p[2] < q[2])

\* The first place at which a pair is observed.
TrajFirst(pair) ==
    CHOOSE p \in TrajPlaces :
        /\ TrajPairAt(p) = pair
        /\ \A q \in TrajPlaces : TrajPairAt(q) = pair => ~TrajBefore(q, p)

\* C12: the list _get_trajectories returns for a sample has exactly one tuple
\* (label, index, min_frame, max_frame) per distinct pair observed with an
\* index, min_frame and max_frame being the smallest and largest frame number
\* at which the pair occurs, in the order of first observation; objects
\* without an index add no tuple and move no bound.
C12_OneTuplePerPair ==
    (trajs.called /\ ~trajs.result.none)
        => LET R == trajs.result.list
               pair(k) == <<R[k][1], R[k][2]>>
           IN /\ {pair(k) : k \in 1..Len(R)} = {TrajPairAt(p) : p \in TrajPlaces}
              /\ \A k \in 1..Len(R), l \in 1..Len(R) :
                    k < l => /\ pair(k) # pair(l)
                             /\ TrajBefore(TrajFirst(pair(k)), TrajFirst(pair(l)))
              /\ \A k \in 1..Len(R) :
                    /\ R[k][3] \in TrajFramesOf(pair(k))
                    /\ R[k][4] \in TrajFramesOf(pair(k))
                    /\ \A fn \in TrajFramesOf(pair(k)) :
                          R[k][3] <= fn /\ fn <= R[k][4]
                    /\ R[k][3] <= R[k][4]

\* A sample where label "c" is tracked with index 1 over several frames,
\* "c.1" is observed with and without an index, and two tuples come out.
C12_Witness ==
    /\ trajs.called
    /\ Len(trajs.result.list) >= 2
    /\ \E k \in 1..Len(trajs.result.list) :
          /\ trajs.result.list[k][1] = <<"c">>
          /\ trajs.result.list[k][2] = 1
          /\ trajs.result.list[k][3] < trajs.result.list[k][4]
    /\ \E k \in 1..Len(trajs.result.list) :
          trajs.result.list[k][1] = <<"c", ".", "1">>
    /\ \E i \in 1..Len(sample_frames) :
          /\ ~sample_frames[i].labels.none
          /\ \E j \in 1..Len(sample_frames[i].labels.list) :
                ~sample_frames[i].labels.list[j].indexed

\* No frame of the sample carries a label.
TrajNoLabeledFrames ==
    \A i \in 1..Len(sample_frames) :
        sample_frames[i].labels.none \/ sample_frames[i].labels.list = <<>>

\* C13, as stated: the entry for a sample is None exactly when the sample has
\* no labeled frames (no frames, or frames none of which carries a label).
C13_NoneIffNoLabeledFrames ==
    trajs.called => (trajs.result.none <=> TrajNoLabeledFrames)

\* C13, amended: the entry for a sample is None exactly when the sample has
\* no frames; for a sample with frames it is a list of tuples, which is empty
\* when no frame carries a label with an index.
C13_NoneIffNoFrames ==
    trajs.called
        => /\ trajs.result.none <=> sample_frames = <<>>
           /\ (sample_frames # <<>> /\ TrajPlaces = {})
                 => trajs.result = List(<<>>)
           /\ \A k \in 1..Len(trajs.result.list) :
                 Len(trajs.result.list[k]) = 4

\* A sample with frames, none with a label: the entry is the empty list.
C13_Witness ==
    /\ trajs.called
    /\ Len(sample_frames) >= 2
    /\ TrajNoLabeledFrames
    /\ trajs.result = List(<<>>)

\* The ids a clip's sample_id may hold: the ids of the samples of the source
\* collection, or, when the source is a clips dataset, of the samples its
\* clips were taken from.
SourceSampleIds ==
    IF src_is_clips THEN {OriginalOf(s) : s \in src_view} ELSE src_view

\* C11: every materialized clip, under any strategy and any caller input, has
\* a support with support[0] <= support[1] and a sample_id that is the id of
\* a sample of the source collection (of the original sample when the source
\* is a clips dataset).
C11_ClipSupportAndSampleId ==
    \A k \in 1..Len(dataset.samples) :
        /\ Len(dataset.samples[k].support) = 2
        /\ dataset.samples[k].support[1] <= dataset.samples[k].support[2]
        /\ dataset.samples[k].sample_id \in SourceSampleIds

\* The builder has put its pipeline together.
PipelineBuilt == pipeline # <<>>

\* $out is the last stage of the pipeline and of no other position.
OutIsLastOnly ==
    /\ pipeline[Len(pipeline)].op = "$out"
    /\ \A i \in 1..(Len(pipeline) - 1) : pipeline[i].op # "$out"

\* C17, as stated: every builder's pipeline has a stage that assigns a fresh
\* random sort key, and $out is its last stage and only that one.
C17_FreshRandAndOutLast ==
    PipelineBuilt
        => /\ \E i \in 1..Len(pipeline) : pipeline[i].rand = "fresh"
           /\ OutIsLastOnly

\* The support builder ran on a single-valued frame support field.
SingleSupport ==
    Running = "_write_support_clips" /\ field_or_expr.ftype = "FrameSupportField"

\* C17, amended: $out is the last stage of every builder's pipeline and only
\* that one; every pipeline has a stage that assigns a fresh random sort key,
\* except the one of the support builder on a single-valued field, which has
\* no such stage and keeps the source sample's _rand through its $project.
C17_RandKeyAndOutLast ==
    PipelineBuilt
        => /\ OutIsLastOnly
           /\ IF SingleSupport
              THEN /\ \A i \in 1..Len(pipeline) : pipeline[i].rand # "fresh"
                   /\ \E i \in 1..Len(pipeline) :
                         pipeline[i].op = "$project" /\ pipeline[i].rand = "copy"
              ELSE \E i \in 1..Len(pipeline) :
                      /\ pipeline[i].op = "$set"
                      /\ pipeline[i].rand = "fresh"
                      /\ i < Len(pipeline)

\* The support builder has materialized the clips of a list-valued field,
\* one sample of which holds two supports.
C17_Witness ==
    /\ dataset.written
    /\ Running = "_write_support_clips"
    /\ field_or_expr.ftype = "ListField(FrameSupportField)"
    /\ Len(dataset.samples) >= 2
    /\ HasStage(pipeline, "$unwind")

\* The clips a sync has passed to the source: those of the documents given
\* to _set_labels and those of the ids given to _delete_labels.
UpdatedClips ==
    UNION {{d.id : d \in {x \in Range(set_labels_calls[i].docs) : x.present}} :
              i \in 1..Len(set_labels_calls)}
DeletedClips == UNION Range(delete_labels_calls)
SyncedClips == UpdatedClips \cup DeletedClips

\* C14: set_values on the mirrored field of a view with stages records the
\* ids of the view before the write, and its sync covers exactly those clips,
\* each read from the clips dataset by id, whatever the view holds after the
\* write; on a view without stages the sync covers every clip of the clips
\* dataset.
C14_SetValuesSyncsRecordedIds ==
    [][/\ view_pc = "set_values"
          => /\ has_stages => sv_ids = Ids(view_ids)
             /\ ~has_stages => sv_ids = NoIds
             /\ sv_ids' = sv_ids
       /\ (view_pc = "set_values_sync" /\ ~SyncSkips(sync_fields))
          => /\ SyncedClips' = (IF has_stages THEN sv_ids.set
                                              ELSE DOMAIN clips_dataset)
             /\ UpdatedClips' = {c \in SyncedClips' : Stored[c]}
             /\ UpdatedClips' \cap DeletedClips' = {}
             /\ \A j \in 1..Len(set_labels_calls'[1].docs) :
                   LET d == set_labels_calls'[1].docs[j]
                   IN /\ d = Doc(d.id, clips_dataset[d.id].label,
                                 clips_dataset[d.id].support)
                      /\ set_labels_calls'[1].sample_ids[j]
                            = clips_dataset[d.id].sample_id]_vars

\* set_values on the mirrored field has synced the two or more clips it
\* recorded, updating some and deleting others, while the view holds
\* different clips after the write.
C14_Witness ==
    /\ view_pc = "ready"
    /\ classification_field # NoField
    /\ ~sv_ids.none
    /\ Cardinality(sv_ids.set) >= 2
    /\ sv_ids.set # view_ids
    /\ events = <<"write", "_set_labels", "_delete_labels">>
    /\ UpdatedClips # {}
    /\ SyncedClips = sv_ids.set

\* ClipsView.save(fields=None) on a temporal-detection view has synced the
\* source and is about to write the clips store.
BulkSaveSynced ==
    /\ view_pc = "save"
    /\ sync_fields = None
    /\ classification_field # NoField

\* The positions of the documents of the one _set_labels call that belong to
\* clip c.
UpdatesOf(c) ==
    {j \in 1..Len(set_labels_calls[1].docs) : set_labels_calls[1].docs[j].id = c}

\* C15: ClipsView.save(fields=None) on a temporal-detection view syncs the
\* source before it writes the clips store: each clip of the view with a
\* classification yields exactly one update, for its sample_id, whose document
\* has the clip's current support and _cls "TemporalDetection"; each clip of
\* the view without one has its id in the deletion set; the two groups
\* partition the view; the write comes after the source's calls.
C15_BulkSaveSyncsThenWrites ==
    /\ [](BulkSaveSynced
            => /\ Len(set_labels_calls) = 1
               /\ \A c \in view_ids :
                     IF view_doc[c]
                     THEN /\ Cardinality(UpdatesOf(c)) = 1
                          /\ \A j \in UpdatesOf(c) :
                                /\ set_labels_calls[1].sample_ids[j]
                                      = clips_dataset[c].sample_id
                                /\ set_labels_calls[1].docs[j]
                                      = Doc(c, clips_dataset[c].label,
                                            clips_dataset[c].support)
                                /\ set_labels_calls[1].docs[j].cls
                                      = "TemporalDetection"
                          /\ c \notin DeletedClips
                     ELSE /\ c \in DeletedClips
                          /\ UpdatesOf(c) = {}
               /\ UpdatedClips \cup DeletedClips = view_ids
               /\ Len(set_labels_calls[1].docs) = Cardinality(UpdatedClips)
               /\ Len(set_labels_calls[1].sample_ids)
                     = Len(set_labels_calls[1].docs)
               /\ "write" \notin Range(events))
    /\ [][BulkSaveSynced
            => /\ events' = Append(events, "write")
               /\ UNCHANGED <<set_labels_calls, delete_labels_calls,
                              src_labels>>]_vars

\* A bulk save of a view of three or more clips, some with and some without
\* a classification, one of the updated clips holding an edited support, has
\* synced the source.
C15_Witness ==
    /\ BulkSaveSynced
    /\ Cardinality(view_ids) >= 3
    /\ DeletedClips # {}
    /\ \E c \in UpdatedClips : clips_dataset[c].support # InitSupport(c)
    /\ events = <<"_set_labels", "_delete_labels">>

\* C16: on a view whose classification field is None, no step of
\* ClipView.save, ClipsView.save, set_values or keep calls _set_labels or
\* _delete_labels, and the labels of the source stay as they are.
C16_NoSyncWithoutField ==
    [][classification_field = NoField
          => /\ src_labels' = src_labels
             /\ set_labels_calls' = <<>>
             /\ delete_labels_calls' = <<>>
             /\ "_set_labels" \notin Range(events')
             /\ "_delete_labels" \notin Range(events')]_vars

\* An operation that writes the clips store has run to its end on a view
\* without classification field.
C16_Witness ==
    /\ classification_field = NoField
    /\ view_pc = "ready"
    /\ op_count >= 1
    /\ "write" \in Range(events)
    /\ set_labels_calls = <<>>
    /\ delete_labels_calls = <<>>

\* ClipView.save() has written the clip and is about to sync the source.
ClipWritten == view_pc = "_sync_source_sample"

\* C18: ClipView.save() writes the clip to the clips store first and then
\* syncs the source with one _set_labels call, for the clip's sample_id only,
\* whose document is the clip's classification with the clip's support and
\* _cls "TemporalDetection", or None when the classification was cleared; the
\* source's detection, where the source still has it, then holds the clip's
\* label and support, and no other detection has changed.
C18_ClipSaveWritesThenSyncs ==
    /\ [](ClipWritten
            => /\ events = <<"write">>
               /\ set_labels_calls = <<>> /\ delete_labels_calls = <<>>
               /\ clips_dataset[sample.id].label = sample.label
               /\ clips_dataset[sample.id].support = sample.support
               /\ clips_dataset[sample.id].sample_id = sample.sample_id)
    /\ [][(ClipWritten /\ classification_field # NoField)
            => /\ events' = <<"write", "_set_labels">>
               /\ delete_labels_calls' = <<>>
               /\ set_labels_calls' =
                     <<SetLabelsCall(
                         <<clips_dataset[sample.id].sample_id>>,
                         <<IF sample.label = NoLabel THEN NoDoc
                           ELSE [present |-> TRUE, id |-> sample.id,
                                 label |-> sample.label,
                                 support |-> sample.support,
                                 cls |-> "TemporalDetection"]>>)>>
               /\ (sample.label # NoLabel /\ sample.id \in DOMAIN src_labels)
                     => /\ src_labels'[sample.id].label
                              = clips_dataset'[sample.id].label
                        /\ src_labels'[sample.id].support
                              = clips_dataset'[sample.id].support
               /\ \A l \in DOMAIN src_labels \ {sample.id} :
                     src_labels'[l] = src_labels[l]]_vars

\* A clip whose label and support were both edited has been saved, and the
\* source's detection holds the new label and support.
C18_Witness ==
    /\ view_pc = "ready"
    /\ classification_field # NoField
    /\ events = <<"write", "_set_labels">>
    /\ sample.label = "b"
    /\ sample.support # InitSupport(sample.id)
    /\ src_labels[sample.id] = Detection("b", sample.support)
    /\ clips_dataset[sample.id].support = sample.support

\* C19: reload() reloads the source, then deletes the current clips dataset,
\* then regenerates one with the stored clips stage; when it returns the view
\* refers to the new clips dataset, which exists, and not to the deleted one;
\* the stages of the view and its clips stage never change.
C19_ReloadRegenerates ==
    /\ [](maint_pc = "reload_delete"
            => /\ maint_log = <<"source.reload">>
               /\ view_clips_dataset \in datasets)
    /\ [](maint_pc = "reload_load_view"
            => /\ maint_log = <<"source.reload", "clips_dataset.delete">>
               /\ view_clips_dataset \notin datasets)
    /\ [][maint_pc = "reload_load_view"
            => /\ maint_pc' = "ready"
               /\ maint_log' = <<"source.reload", "clips_dataset.delete",
                                 "load_view">>
               /\ view_clips_dataset' # view_clips_dataset
               /\ view_clips_dataset' \in datasets'
               /\ view_clips_dataset' \notin datasets
               /\ view_clips_dataset \notin datasets']_vars
    /\ [][UNCHANGED <<view_stages, clips_stage, cls_field>>]_vars

\* The view with stages has been reloaded twice: it refers to the third
\* clips dataset, the only one that exists.
C19_Witness ==
    /\ maint_pc = "ready"
    /\ reloads = 2
    /\ maint_log = <<"source.reload", "clips_dataset.delete", "load_view">>
    /\ view_stages # <<>>
    /\ view_clips_dataset = 3
    /\ datasets = {3}

\* The paths keep_fields has told the source to delete.
ExcludedPaths == UNION Range(exclude_calls)

\* C20: keep_fields() syncs the source before it changes the clips store:
\* the source is told to delete the mirrored field if and only if the view
\* mirrors one and it is not in the view's field schema; the frame fields it
\* is told to delete are, with the frames prefix, exactly the fields of the
\* source's frame schema that are not in the view's frame schema; the source
\* loses those fields and no other, and none when neither condition holds.
C20_KeepFieldsSyncsSchema ==
    /\ [][maint_pc = "ready" /\ maint_pc' = "keep_fields"
            => /\ Path("", cls_field) \in ExcludedPaths'
                     <=> (cls_field # NoField
                          /\ cls_field \notin view_field_schema)
               /\ {q \in ExcludedPaths' : q[1] # ""}
                     = {Path("frames.", f) :
                           f \in get_frame_field_schema(src_fields)
                                 \ view_frame_schema}
               /\ {q \in ExcludedPaths' : q[1] = ""} \subseteq {Path("", cls_field)}
               /\ src_fields' = src_fields \ ExcludedPaths'
               /\ get_frame_field_schema(src_fields') \subseteq view_frame_schema
               /\ ((cls_field = NoField \/ cls_field \in view_field_schema)
                   /\ get_frame_field_schema(src_fields) \subseteq view_frame_schema)
                     => src_fields' = src_fields /\ exclude_calls' = <<>>
               /\ clips_fields' = clips_fields
               /\ "write" \notin Range(maint_log')]_vars
    /\ [][maint_pc = "keep_fields"
            => /\ maint_log' = Append(maint_log, "write")
               /\ UNCHANGED <<src_fields, exclude_calls>>]_vars

\* keep_fields has deleted the mirrored field "f" and the frame field "h"
\* from the source, which keeps its frame field "f", and has then changed
\* the clips store.
C20_Witness ==
    /\ maint_pc = "ready"
    /\ maint_log = <<"exclude_fields", "exclude_fields", "write">>
    /\ exclude_calls = <<{Path("", "f")}, {Path("frames.", "h")}>>
    /\ Path("frames.", "f") \in src_fields
    /\ Path("", "f") \notin src_fields
    /\ "f" \notin clips_fields

\* The clips that the view retains with a present classification.
RetainedClassified == {c \in view_ids : view_doc[c]}

\* C21: keep() on a temporal-detection view never passes to _delete_labels
\* the id of a clip that the view retains with a present classification, it
\* makes no _set_labels call, and the source label of such a clip is the
\* same after the sync as before.
C21_KeepSparesRetainedClassified ==
    [][(view_pc = "ready" /\ view_pc' = "keep"
            /\ classification_field # NoField)
        => /\ \A i \in 1..Len(delete_labels_calls') :
                 delete_labels_calls'[i] \cap RetainedClassified = {}
           /\ set_labels_calls' = <<>>
           /\ \A c \in RetainedClassified \cap DOMAIN src_labels :
                 /\ c \in DOMAIN src_labels'
                 /\ src_labels'[c] = src_labels[c]]_vars

\* keep() has synced a view that retains a classified clip and, of the same
\* sample, a clip without a classification, whose label it deleted.
C21_Witness ==
    /\ view_pc = "keep"
    /\ classification_field # NoField
    /\ \E c \in RetainedClassified, d \in view_ids \ RetainedClassified :
          /\ c \in DOMAIN clips_dataset /\ d \in DOMAIN clips_dataset
          /\ clips_dataset[c].sample_id = clips_dataset[d].sample_id
          /\ c \in DOMAIN src_labels
          /\ delete_labels_calls # <<>>
          /\ d \in delete_labels_calls[1]

\* The part of a field name before its first dot, for a name that does not
\* begin with a dot.
RootOf(name) == Head(name)

\* The source is left as it is: no label changes and no call reaches it.
SourceUntouched ==
    /\ src_labels' = src_labels
    /\ set_labels_calls' = <<>>
    /\ delete_labels_calls' = <<>>

\* C22: on a temporal-detection view, no step of set_values(field_name, ...)
\* changes the source or calls it when the part of field_name before its
\* first dot is not the mirrored field (the support included), and no step
\* of save(fields) does when fields is a list without the mirrored field.
C22_OtherFieldsLeaveSource ==
    [][classification_field # NoField
       => /\ (view_pc' \in {"set_values", "set_values_sync"}
               /\ RootOf(field_name') # classification_field)
             => SourceUntouched
          /\ (view_pc = "set_values_sync"
               /\ RootOf(field_name) # classification_field)
             => SourceUntouched
          /\ ((view_pc' = "save" \/ view_pc = "save")
               /\ ~sync_fields'.none
               /\ classification_field \notin Range(sync_fields'.list))
             => SourceUntouched]_vars

\* set_values("support", ...) has run to its end on a temporal-detection
\* view and has given a clip a support that its source label does not have.
C22_Witness ==
    /\ view_pc = "ready"
    /\ classification_field # NoField
    /\ sync_fields = List(<<"support">>)
    /\ ~sv_ids.none
    /\ events = <<"write">>
    /\ \E c \in (DOMAIN clips_dataset \cap DOMAIN src_labels) \ {1} :
          /\ clips_dataset[c].support = NewSupport(c)
          /\ src_labels[c].support = InitSupport(c)

\* The temporal-detection builder has written the clips.
DetectionClipsWritten ==
    /\ called # <<>>
    /\ Running = "_write_temporal_detection_clips"
    /\ dataset.written

\* The TemporalDetections that the field holds on the samples of the source
\* collection.
SourceDetections ==
    UNION {{SourceDetection(s, k, clip_values[s].list[k]) :
               k \in 1..Len(clip_values[s].list)} :
           s \in {x \in src_view : ~clip_values[x].none}}

\* The clip that the claim promises for detection d.
DerivedFrom(clip, d) ==
    /\ clip._id = d._id
    /\ clip.support = d.support
    /\ clip.label = [_id |-> d._id, _cls |-> "Classification", label |-> d.label]

\* C23: under the temporal-detection strategy every materialized clip is
\* derived from a TemporalDetection of the source (its id is the
\* detection's id, its support the detection's support, its label the
\* detection as a Classification without the support), each detection has
\* exactly one clip, and the ids of the clips are pairwise distinct.
C23_ClipPerDetection ==
    DetectionClipsWritten
        => /\ \A k \in 1..Len(dataset.samples) :
                 \E d \in SourceDetections : DerivedFrom(dataset.samples[k], d)
           /\ \A d \in SourceDetections :
                 Cardinality({k \in 1..Len(dataset.samples) :
                                 dataset.samples[k]._id = d._id}) = 1
           /\ \A j, k \in 1..Len(dataset.samples) :
                 dataset.samples[j]._id = dataset.samples[k]._id => j = k

====
